---------------------------- MODULE Spec2Model ----------------------------
(***************************************************************************)
(* Model of the proxy-state helper of sangndev/utils                       *)
(* (src/unnamed/part_002, the same code as src/unnamed/part_003:163-415)   *)
(* and of its equality checker (src/src/helpers/deep-equal.ts).            *)
(*                                                                         *)
(* The program is single threaded.  A step of the model is one call made   *)
(* by client code (proxy, a property read / write / delete through a       *)
(* facade, subscribe, a disposer), the start of the deferred flush         *)
(* (the Promise callback of dispatchAllHandlers), or one iteration of the  *)
(* flush loop, i.e. one listener invocation together with what the         *)
(* listener does.                                                          *)
(***************************************************************************)
EXTENDS Integers, Sequences, FiniteSets, TLC

(***************************************************************************)
(* Bounds of the model.                                                    *)
(***************************************************************************)
\* Longest pending batch the model lets client code build up.
MaxBatch == 2

\* The Trackables client code works with: 1 is the root, 2 and 3 are the
\* objects it nests below it or assigns into it.
Obj == {1, 2, 3}

\* Property names.
Keys == {"a", "b"}

\* The listener functions; each is one closure, subscribed at most once.
Handlers == {"h1", "h2"}

(***************************************************************************)
(* JavaScript values.  Every value is a record of the same shape.          *)
(*   Absent      no own property (a read yields undefined)                 *)
(*   Ref(o, 0)   the unwrapped object o                                    *)
(*   Ref(o, l)   the facade client code holds at nesting depth l over o:   *)
(*               Ref(o,1) = proxy(o), Ref(o,2) = proxy(proxy(o))           *)
(*   Fresh(o, l) a facade of depth l over o made inside a get trap: a new  *)
(*               object on every read, identical to nothing else           *)
(***************************************************************************)
Absent == [tag |-> "absent", n |-> 0, lvl |-> 0]
Undefined == [tag |-> "undefined", n |-> 0, lvl |-> 0]
Null == [tag |-> "null", n |-> 0, lvl |-> 0]
NaN == [tag |-> "nan", n |-> 0, lvl |-> 0]
Num(i) == [tag |-> "number", n |-> i, lvl |-> 0]
Ref(o, l) == [tag |-> "object", n |-> o, lvl |-> l]
Fresh(o, l) == [tag |-> "fresh", n |-> o, lvl |-> l]
Raw(o) == Ref(o, 0)

IsRef(v) == v.tag \in {"object", "fresh"}
IsFacade(v) == IsRef(v) /\ v.lvl >= 1
IsRaw(v) == v.tag = "object" /\ v.lvl = 0

\* The [[ProxyTarget]] of a facade: what `new Proxy(obj, handlers)` wraps.
ProxyTarget(f) == IF f.lvl = 1 THEN Raw(f.n) ELSE [f EXCEPT !.lvl = f.lvl - 1]

\* typeof
TypeOf(v) ==
  CASE v.tag \in {"number", "nan"} -> "number"
    [] v.tag \in {"undefined", "absent"} -> "undefined"
    [] OTHER -> "object"

\* a === b
StrictEquals(a, b) ==
  /\ a.tag \notin {"nan", "fresh"}
  /\ a = b

\* Object.is(a, b)
objectIs(a, b) == StrictEquals(a, b) \/ (a.tag = "nan" /\ b.tag = "nan")

\* ToBoolean
Truthy(v) == IsRef(v) \/ (v.tag = "number" /\ v.n # 0)

(***************************************************************************)
(* The heap: hp[o] = [ctor, props].  ctor is the name of o.constructor     *)
(* ("None": no constructor); props maps every property name o may get to   *)
(* its value or to Absent.  An array keeps its length under "length" and   *)
(* its elements under ArrayKeys.                                           *)
(***************************************************************************)
ArrayKeys == <<"0", "1">>

OrdinaryGet(hp, o, k) ==
  IF k \in DOMAIN hp[o].props /\ hp[o].props[k] # Absent
  THEN hp[o].props[k]
  ELSE Undefined

\* Object.keys(o): own enumerable string keys ("length" is not enumerable).
ObjectKeys(hp, o) ==
  {k \in DOMAIN hp[o].props :
     hp[o].props[k] # Absent /\ ~(hp[o].ctor = "Array" /\ k = "length")}

HasOwnProperty(hp, o, k) == k \in DOMAIN hp[o].props /\ hp[o].props[k] # Absent

ArrayLength(hp, o) == OrdinaryGet(hp, o, "length").n

IndexOf(k) == CHOOSE i \in 0..(Len(ArrayKeys) - 1) : ArrayKeys[i + 1] = k

\* [[Set]] on the unwrapped object; an array grows its length with the index.
OrdinarySet(hp, o, k, v) ==
  IF hp[o].ctor = "Array" /\ k \in {ArrayKeys[i] : i \in DOMAIN ArrayKeys}
     /\ IndexOf(k) >= ArrayLength(hp, o)
  THEN [hp EXCEPT ![o].props[k] = v, ![o].props["length"] = Num(IndexOf(k) + 1)]
  ELSE [hp EXCEPT ![o].props[k] = v]

\* [[Delete]] on the unwrapped object.
OrdinaryDelete(hp, o, k) == [hp EXCEPT ![o].props[k] = Absent]

\* A property read as deepEqual sees it: through a facade a composite comes
\* back wrapped by the get trap, one facade per level.
ReadThrough(hp, a, k) ==
  LET v == OrdinaryGet(hp, a.n, k)
  IN IF IsFacade(a) /\ IsRaw(v) /\ hp[v.n].ctor \in {"Object", "Array", "None"}
     THEN Fresh(v.n, a.lvl)
     ELSE v

(***************************************************************************)
(* Utils                                                                   *)
(***************************************************************************)
isObject(v) == IsRef(v)

canProxy(hp, v) ==
  IF ~isObject(v) \/ (hp[v.n].ctor # "None" /\ hp[v.n].ctor \notin {"Object", "Array"})
  THEN FALSE
  ELSE TRUE

\* getOriginalObject throws a TypeError on null and undefined.
GetOriginalThrows(v) == v \in {Null, Undefined}

\* Fault: a facade made by a get trap does not answer GET_ORIGINAL_SYMBOL.
getOriginalObjectHeldOnly(v) ==
  IF IsFacade(v) /\ v.tag # "fresh" THEN ProxyTarget(v) ELSE v

getOriginalObject(v) == IF IsFacade(v) THEN ProxyTarget(v) ELSE v

(***************************************************************************)
(* deepEqual                                                               *)
(***************************************************************************)
\* Fault: deepEqual compares by reference alone.
deepEqualByReference(hp, a, b) == StrictEquals(a, b)

\* Fault: deepEqual does not compare the number of keys of two objects.
RECURSIVE deepEqualNoKeyCount(_, _, _)
deepEqualNoKeyCount(hp, a, b) ==
  IF StrictEquals(a, b) THEN TRUE
  ELSE IF TypeOf(a) # TypeOf(b) THEN FALSE
  ELSE IF Truthy(a) /\ Truthy(b) /\ TypeOf(a) = "object" /\ TypeOf(b) = "object"
  THEN IF hp[a.n].ctor # hp[b.n].ctor THEN FALSE
       ELSE IF hp[a.n].ctor = "Array" /\ hp[b.n].ctor = "Array"
       THEN IF ArrayLength(hp, a.n) # ArrayLength(hp, b.n) THEN FALSE
            ELSE \A i \in 1..ArrayLength(hp, a.n) :
                   deepEqualNoKeyCount(hp, ReadThrough(hp, a, ArrayKeys[i]),
                                           ReadThrough(hp, b, ArrayKeys[i]))
       ELSE LET keys == ObjectKeys(hp, a.n)
            IN IF \E k \in keys : ~HasOwnProperty(hp, b.n, k) THEN FALSE
               ELSE \A k \in keys :
                      \/ k = "_owner" /\ Truthy(OrdinaryGet(hp, a.n, "$$typeof"))
                      \/ deepEqualNoKeyCount(hp, ReadThrough(hp, a, k),
                                                 ReadThrough(hp, b, k))
  ELSE a.tag = "nan" /\ b.tag = "nan"

RECURSIVE deepEqual(_, _, _)
deepEqual(hp, a, b) ==
  IF StrictEquals(a, b) THEN TRUE
  ELSE IF TypeOf(a) # TypeOf(b) THEN FALSE
  ELSE IF Truthy(a) /\ Truthy(b) /\ TypeOf(a) = "object" /\ TypeOf(b) = "object"
  THEN IF hp[a.n].ctor # hp[b.n].ctor THEN FALSE
       ELSE IF hp[a.n].ctor = "Array" /\ hp[b.n].ctor = "Array"
       THEN IF ArrayLength(hp, a.n) # ArrayLength(hp, b.n) THEN FALSE
            ELSE \A i \in 1..ArrayLength(hp, a.n) :
                   deepEqual(hp, ReadThrough(hp, a, ArrayKeys[i]),
                                 ReadThrough(hp, b, ArrayKeys[i]))
       ELSE LET keys == ObjectKeys(hp, a.n)
            IN IF Cardinality(keys) # Cardinality(ObjectKeys(hp, b.n)) THEN FALSE
               ELSE IF \E k \in keys : ~HasOwnProperty(hp, b.n, k) THEN FALSE
               ELSE \A k \in keys :
                      \/ k = "_owner" /\ Truthy(OrdinaryGet(hp, a.n, "$$typeof"))
                      \/ deepEqual(hp, ReadThrough(hp, a, k), ReadThrough(hp, b, k))
  ELSE a.tag = "nan" /\ b.tag = "nan"


(***************************************************************************)
(* Constants of the module                                                 *)
(***************************************************************************)
SELF_SYMBOL == "__self__"

PathKeys == Keys \cup {SELF_SYMBOL}

\* How deep client code nests facades over object o: it wraps the root twice.
MaxWrap(o) == IF o = 1 THEN 2 ELSE 1

\* What client code can hold: the unwrapped objects and its facades.
Handles == {r \in [tag : {"object"}, n : Obj, lvl : 0..2] : r.lvl <= MaxWrap(r.n)}

FacadeHandles == {f \in Handles : f.lvl >= 1}

\* The objects that can become keys of the WeakMap: unwrapped objects,
\* facades that were wrapped again, facades made by a get trap and wrapped
\* again by the trap of an outer facade.  All facades Fresh(o,1) share one
\* key in the model; no facade over one of them outlives the call that made
\* it, so no later call looks that key up.
StoreKeys == {h \in Handles : h.lvl < MaxWrap(h.n)} \cup {Fresh(o, 1) : o \in Obj}

EmptyMap == [p \in PathKeys |-> <<>>]

\* subscriberStore.get(key): has = FALSE is `undefined`; map[p] = << >> is
\* both a missing path and an emptied list (the code reads them alike).
NoSubscriber == [has |-> FALSE, map |-> EmptyMap]

(***************************************************************************)
(* The operations, as functions of the machine state                       *)
(*   M = [heap, subscriberStore, handlerBatch, batchScheduled,             *)
(*        microtasks, calls]                                               *)
(* microtasks counts the flush callbacks queued by Promise.resolve().then. *)
(***************************************************************************)
BatchEntries(handlers, record) ==
  [i \in 1..Len(handlers) |-> [handler |-> handlers[i], record |-> record]]

\* Fault: the flush is scheduled without looking at batchScheduled.
ScheduleFlushAlways(M) ==
  [M EXCEPT !.batchScheduled = TRUE, !.microtasks = @ + 1]

ScheduleFlush(M) ==
  IF ~M.batchScheduled
  THEN [M EXCEPT !.batchScheduled = TRUE, !.microtasks = @ + 1]
  ELSE M

\* Fault: dispatchAllHandlers calls the listeners itself, during the write.
dispatchAllHandlersNow(M, handlers, record) ==
  [M EXCEPT !.calls = @ \o BatchEntries(handlers, record)]

\* Fault: a listener that is already pending is not pushed again; its entry
\* gets the new record (one notification per listener and turn).
RECURSIVE PushCoalescing(_, _, _)
PushCoalescing(pending, handlers, record) ==
  IF handlers = <<>> THEN pending
  ELSE LET h == Head(handlers)
           next == IF \E i \in DOMAIN pending : pending[i].handler = h
                   THEN [i \in DOMAIN pending |->
                           IF pending[i].handler = h
                           THEN [handler |-> h, record |-> record]
                           ELSE pending[i]]
                   ELSE Append(pending, [handler |-> h, record |-> record])
       IN PushCoalescing(next, Tail(handlers), record)

dispatchAllHandlersCoalescing(M, handlers, record) ==
  IF Len(handlers) = 0 THEN M
  ELSE ScheduleFlush([M EXCEPT !.handlerBatch = PushCoalescing(@, handlers, record)])

dispatchAllHandlers(M, handlers, record) ==
  IF Len(handlers) = 0 THEN M
  ELSE ScheduleFlush([M EXCEPT !.handlerBatch = @ \o BatchEntries(handlers, record)])

\* Fault: notifyUpdate also dispatches the SELF_SYMBOL listeners of every
\* object that holds originObject in a property.
Holders(hp, v) == {p \in Obj : \E k \in DOMAIN hp[p].props : hp[p].props[k] = v}

RECURSIVE DispatchSelfOf(_, _)
DispatchSelfOf(M, objs) ==
  IF objs = {} THEN M
  ELSE LET p == CHOOSE x \in objs : TRUE
           subscriber == M.subscriberStore[Raw(p)]
           M1 == IF subscriber.has /\ Len(subscriber.map[SELF_SYMBOL]) > 0
                 THEN dispatchAllHandlers(M, subscriber.map[SELF_SYMBOL], Raw(p))
                 ELSE M
       IN DispatchSelfOf(M1, objs \ {p})

notifyUpdateBubbling(M, path, newValue, originObject) ==
  LET subscriber == M.subscriberStore[originObject]
      M1 == IF subscriber.has /\ Len(subscriber.map[path]) > 0
            THEN dispatchAllHandlers(M, subscriber.map[path], newValue)
            ELSE M
      M2 == IF subscriber.has /\ Len(subscriber.map[SELF_SYMBOL]) > 0
            THEN dispatchAllHandlers(M1, subscriber.map[SELF_SYMBOL], originObject)
            ELSE M1
  IN DispatchSelfOf(M2, Holders(M.heap, Raw(originObject.n)))

\* Fault: when the new value is an object, notifyUpdate leaves out the
\* listeners of the key (as if they had moved to the new object).
notifyUpdateMigrated(M, path, newValue, originObject) ==
  LET subscriber == M.subscriberStore[originObject]
      M1 == IF subscriber.has /\ Len(subscriber.map[path]) > 0 /\ ~isObject(newValue)
            THEN dispatchAllHandlers(M, subscriber.map[path], newValue)
            ELSE M
  IN IF subscriber.has /\ Len(subscriber.map[SELF_SYMBOL]) > 0
     THEN dispatchAllHandlers(M1, subscriber.map[SELF_SYMBOL], originObject)
     ELSE M1

notifyUpdate(M, path, newValue, originObject) ==
  LET subscriber == M.subscriberStore[originObject]
  IN IF subscriber.has
     THEN LET handlers == subscriber.map[path]
              selfHandlers == subscriber.map[SELF_SYMBOL]
              M1 == IF Len(handlers) > 0
                    THEN dispatchAllHandlers(M, handlers, newValue)
                    ELSE M
          IN IF Len(selfHandlers) > 0
             THEN dispatchAllHandlers(M1, selfHandlers, originObject)
             ELSE M1
     ELSE M

\* Fault: proxy(obj, true) stores a new Map whether or not obj has one.
proxyAlwaysSets(M, obj, saveToStore) ==
  IF saveToStore
  THEN [M EXCEPT !.subscriberStore[obj] = [has |-> TRUE, map |-> EmptyMap]]
  ELSE M

\* proxy(obj, saveToStore): the registration; the facade itself is a value.
proxy(M, obj, saveToStore) ==
  IF ~M.subscriberStore[obj].has /\ saveToStore
  THEN [M EXCEPT !.subscriberStore[obj] = [has |-> TRUE, map |-> EmptyMap]]
  ELSE M

\* The facade a get trap returns for a composite it read.
Wrapped(v) == Fresh(v.n, v.lvl + 1)

\* createDefaultHandler(obj).get, for a property other than the reserved
\* accessor: [m |-> machine state after the read, val |-> value returned].
RECURSIVE HandlerGet(_, _, _)
HandlerGet(M, f, prop) ==
  LET target == ProxyTarget(f)
      got == IF IsFacade(target)
             THEN HandlerGet(M, target, prop)
             ELSE [m |-> M, val |-> OrdinaryGet(M.heap, target.n, prop)]
  IN IF canProxy(got.m.heap, got.val)
     THEN [m |-> proxy(got.m, got.val, TRUE), val |-> Wrapped(got.val)]
     ELSE got

\* obj[key] for an unwrapped object or a facade.
ReadProperty(M, obj, key) ==
  IF IsFacade(obj)
  THEN HandlerGet(M, obj, key)
  ELSE [m |-> M, val |-> OrdinaryGet(M.heap, obj.n, key)]

\* createDefaultHandler(obj).set; Reflect.set on a target that is itself a
\* facade runs that facade's set trap.
\* Fault: the set trap notifies and returns without Reflect.set.
HandlerSetUncommitted(M, f, property, newValue) ==
  LET target == Raw(f.n)
      prevValue == OrdinaryGet(M.heap, f.n, property)
  IN IF objectIs(prevValue, newValue) \/ deepEqual(M.heap, prevValue, newValue)
     THEN M
     ELSE notifyUpdate(M, property, newValue, target)

\* Fault: when an object replaces an object, the set trap moves the
\* SELF_SYMBOL listeners of the old object to the new one (the subscription
\* follows the path).
HandlerSetRebinding(M, f, property, newValue) ==
  LET target == Raw(f.n)
      prevValue == OrdinaryGet(M.heap, f.n, property)
  IN IF objectIs(prevValue, newValue) \/ deepEqual(M.heap, prevValue, newValue)
     THEN M
     ELSE LET notified == notifyUpdate(M, property, newValue, target)
              written == [notified EXCEPT
                            !.heap = OrdinarySet(notified.heap, f.n, property, newValue)]
          IN IF IsRaw(prevValue) /\ IsRaw(newValue)
             THEN [written EXCEPT
                     !.subscriberStore[newValue] =
                        [has |-> TRUE,
                         map |-> [@.map EXCEPT ![SELF_SYMBOL] =
                                    @ \o M.subscriberStore[prevValue].map[SELF_SYMBOL]]],
                     !.subscriberStore[prevValue].map[SELF_SYMBOL] = <<>>]
             ELSE written

RECURSIVE HandlerSet(_, _, _, _)
HandlerSet(M, f, property, newValue) ==
  LET target == ProxyTarget(f)
      got == ReadProperty(M, target, property)
      prevValue == got.val
  IN IF objectIs(prevValue, newValue) THEN got.m
     ELSE IF deepEqual(got.m.heap, prevValue, newValue) THEN got.m
     ELSE LET notified == notifyUpdate(got.m, property, newValue, target)
          IN IF IsFacade(target)
             THEN HandlerSet(notified, target, property, newValue)
             ELSE [notified EXCEPT
                     !.heap = OrdinarySet(notified.heap, target.n, property, newValue)]

\* Fault: the deleteProperty trap reports the deletion to the listeners.
HandlerDeletePropertyNotifying(M, f, property) ==
  LET target == Raw(f.n)
      notified == notifyUpdate(M, property, Undefined, target)
  IN [notified EXCEPT !.heap = OrdinaryDelete(notified.heap, target.n, property)]

\* createDefaultHandler(obj).deleteProperty
RECURSIVE HandlerDeleteProperty(_, _, _)
HandlerDeleteProperty(M, f, property) ==
  LET target == ProxyTarget(f)
  IN IF IsFacade(target)
     THEN HandlerDeleteProperty(M, target, property)
     ELSE [M EXCEPT !.heap = OrdinaryDelete(M.heap, target.n, property)]

\* Fault: subscribe never redirects to the child object.
SubscribePlaceNoRedirect(M, obj, key) ==
  [targetObject |-> getOriginalObject(obj), subscribeKey |-> key]

\* subscribe(obj, key, handler), when getOriginalObject does not throw:
\* where the listener is put.
SubscribePlace(M, obj, key) ==
  LET got == ReadProperty(M, obj, key)
      originalNextValue == getOriginalObject(got.val)
      originalObject == getOriginalObject(obj)
  IN IF canProxy(got.m.heap, originalNextValue)
     THEN [targetObject |-> originalNextValue, subscribeKey |-> SELF_SYMBOL]
     ELSE [targetObject |-> originalObject, subscribeKey |-> key]

SubscribeThrows(M, obj, key) == GetOriginalThrows(ReadProperty(M, obj, key).val)

subscribe(M, obj, key, handler) ==
  LET got == ReadProperty(M, obj, key)
      place == SubscribePlace(M, obj, key)
      M1 == got.m
      subscriber == IF M1.subscriberStore[place.targetObject].has
                    THEN M1.subscriberStore[place.targetObject]
                    ELSE [has |-> TRUE, map |-> EmptyMap]
      handlers == Append(subscriber.map[place.subscribeKey], handler)
  IN [M1 EXCEPT !.subscriberStore[place.targetObject] =
                   [subscriber EXCEPT !.map[place.subscribeKey] = handlers]]

\* Whether the set trap client code calls returns at line 111 or 116, before
\* notifyUpdate and Reflect.set.
SetReturnsEarly(M, f, property, newValue) ==
  LET got == ReadProperty(M, ProxyTarget(f), property)
  IN \/ objectIs(got.val, newValue)
     \/ deepEqual(got.m.heap, got.val, newValue)

\* Fault: the disposer drops the listener added last and keeps the others.
UnsubscribeLast(M, place) ==
  IF M.subscriberStore[place.targetObject].has
  THEN [M EXCEPT !.subscriberStore[place.targetObject].map[place.subscribeKey] =
                   IF Len(@) = 0 THEN @ ELSE SubSeq(@, 1, Len(@) - 1)]
  ELSE M

\* Fault: the disposer also takes the listeners of the list it empties out of
\* the pending batch.
UnsubscribeCancelsPending(M, place) ==
  IF M.subscriberStore[place.targetObject].has
  THEN LET list == M.subscriberStore[place.targetObject].map[place.subscribeKey]
           Kept(e) == \A i \in DOMAIN list : list[i] # e.handler
       IN [M EXCEPT !.subscriberStore[place.targetObject].map[place.subscribeKey] = <<>>,
                    !.handlerBatch = SelectSeq(@, Kept)]
  ELSE M

\* The function subscribe returns.
Unsubscribe(M, place) ==
  IF M.subscriberStore[place.targetObject].has
  THEN [M EXCEPT !.subscriberStore[place.targetObject].map[place.subscribeKey] = <<>>]
  ELSE M


(***************************************************************************)
(* State                                                                   *)
(***************************************************************************)
VARIABLES
  heap,             \* the tracked objects
  subscriberStore,  \* WeakMap<object, Map<TKey, THandler[]>>
  handlerBatch,     \* the pending batch
  batchScheduled,   \* the scheduling flag
  microtasks,       \* flush callbacks queued and not yet started
  batch,            \* the flush callback's local `batch`
  pos,              \* flush loop: index of the next entry; 0 = no flush runs
  uncaught,         \* an exception left the flush callback
  disposers,        \* the closure each subscribe call returned
  calls,            \* listener calls made by the flush that is running
  lastOp            \* the call made by the last step

vars == <<heap, subscriberStore, handlerBatch, batchScheduled, microtasks,
          batch, pos, uncaught, disposers, calls, lastOp>>

Machine ==
  [heap |-> heap, subscriberStore |-> subscriberStore,
   handlerBatch |-> handlerBatch, batchScheduled |-> batchScheduled,
   microtasks |-> microtasks, calls |-> calls]

Install(M) ==
  /\ heap' = M.heap
  /\ subscriberStore' = M.subscriberStore
  /\ handlerBatch' = M.handlerBatch
  /\ batchScheduled' = M.batchScheduled
  /\ microtasks' = M.microtasks
  /\ calls' = M.calls

NoPlace == [targetObject |-> Absent, subscribeKey |-> ""]

\* lastOp: which call the step made; rep flips when the same call repeats.
\* A write is "set" when the trap went on to Reflect.set and "set-equal" when
\* it returned early.
Op(name, obj, key, val, fn) ==
  LET o == [op |-> name, obj |-> obj, key |-> key, val |-> val, fn |-> fn, rep |-> 0]
  IN IF lastOp = o THEN [o EXCEPT !.rep = 1] ELSE o

SetOp(M, f, key, value) ==
  IF SetReturnsEarly(M, f, key, value) THEN "set-equal" ELSE "set"

\* Through a facade over a facade the previous value is read by the inner get
\* trap, which hands a composite back wrapped; deepEqual would then read
\* through that facade.  Client code of the model does not replace a
\* composite by a composite through such a facade.
SetAllowed(M, f, k, v) ==
  /\ IsFacade(ProxyTarget(f)) => ~(IsRef(v) /\ IsRef(OrdinaryGet(M.heap, f.n, k)))
  /\ Len(HandlerSet(M, f, k, v).handlerBatch) <= MaxBatch

\* { a: 0, b: 0 }
FlatHeap == [o \in Obj |-> [ctor |-> "Object", props |-> [k \in Keys |-> Num(0)]]]

\* 1 = { a: 0, b: 2 }, 2 = { a: 0, b: 3 }, 3 = { a: 0 }
NestedHeap ==
  [o \in Obj |->
     [ctor |-> "Object",
      props |-> [k \in Keys |->
                   IF k = "a" THEN Num(0)
                   ELSE IF o + 1 \in Obj THEN Raw(o + 1) ELSE Absent]]]

InitWith(hp) ==
  /\ heap = hp
  /\ subscriberStore = [x \in StoreKeys |-> NoSubscriber]
  /\ handlerBatch = <<>>
  /\ batchScheduled = FALSE
  /\ microtasks = 0
  /\ batch = <<>>
  /\ pos = 0
  /\ uncaught = FALSE
  /\ disposers = [h \in Handlers |-> NoPlace]
  /\ calls = <<>>
  /\ lastOp = [op |-> "init", obj |-> Absent, key |-> "", val |-> Absent, fn |-> "", rep |-> 0]

Init == InitWith(FlatHeap)

(***************************************************************************)
(* Calls made by client code, between flushes                              *)
(***************************************************************************)
\* proxy(obj) and proxy(obj, true)
ClientProxy(obj, saveToStore) ==
  /\ pos = 0
  /\ obj.lvl < MaxWrap(obj.n)
  /\ Install(proxy(Machine, obj, saveToStore))
  /\ lastOp' = Op(IF saveToStore THEN "proxy-register" ELSE "proxy", obj, "",
                  Ref(obj.n, obj.lvl + 1), "")
  /\ UNCHANGED <<batch, pos, uncaught, disposers>>

\* facade[key]
ClientGet(f, key) ==
  /\ pos = 0
  /\ LET got == HandlerGet(Machine, f, key)
     IN /\ Install(got.m)
        /\ lastOp' = Op("get", f, key, got.val, "")
  /\ UNCHANGED <<batch, pos, uncaught, disposers>>

\* facade[key] = value
ClientSet(f, key, value) ==
  /\ pos = 0
  /\ SetAllowed(Machine, f, key, value)
  /\ Install(HandlerSet(Machine, f, key, value))
  /\ lastOp' = Op(SetOp(Machine, f, key, value), f, key, value, "")
  /\ UNCHANGED <<batch, pos, uncaught, disposers>>

\* delete facade[key]
ClientDelete(f, key) ==
  /\ pos = 0
  /\ Install(HandlerDeleteProperty(Machine, f, key))
  /\ lastOp' = Op("delete", f, key, Absent, "")
  /\ UNCHANGED <<batch, pos, uncaught, disposers>>

\* subscribe(obj, key, handler); a TypeError leaves everything as it was.
ClientSubscribe(obj, key, handler) ==
  /\ pos = 0
  /\ disposers[handler] = NoPlace
  /\ IF SubscribeThrows(Machine, obj, key)
     THEN /\ Install(ReadProperty(Machine, obj, key).m)
          /\ lastOp' = Op("subscribe-throws", obj, key, Absent, handler)
          /\ UNCHANGED disposers
     ELSE /\ Install(subscribe(Machine, obj, key, handler))
          /\ lastOp' = Op("subscribe", obj, key, Absent, handler)
          /\ disposers' = [disposers EXCEPT ![handler] = SubscribePlace(Machine, obj, key)]
  /\ UNCHANGED <<batch, pos, uncaught>>

\* the disposer subscribe returned for `handler`
ClientUnsubscribe(handler) ==
  /\ pos = 0
  /\ disposers[handler] # NoPlace
  /\ Install(Unsubscribe(Machine, disposers[handler]))
  /\ lastOp' = Op("unsubscribe", disposers[handler].targetObject,
                  disposers[handler].subscribeKey, Absent, handler)
  /\ UNCHANGED <<batch, pos, uncaught, disposers>>

(***************************************************************************)
(* The flush: the callback of Promise.resolve().then in                    *)
(* dispatchAllHandlers.  It starts once the running code has returned.     *)
(***************************************************************************)
\* Fault: the flush callback takes the batch and leaves batchScheduled set.
FlushStartKeepsFlag ==
  /\ pos = 0
  /\ microtasks > 0
  /\ microtasks' = microtasks - 1
  /\ batch' = handlerBatch
  /\ handlerBatch' = <<>>
  /\ pos' = 1
  /\ lastOp' = Op("flush", Absent, "", Absent, "")
  /\ UNCHANGED <<heap, subscriberStore, batchScheduled, uncaught, disposers, calls>>

\* Fault: the flush callback throws the pending batch away.
FlushStartDrops ==
  /\ pos = 0
  /\ microtasks > 0
  /\ microtasks' = microtasks - 1
  /\ batch' = <<>>
  /\ handlerBatch' = <<>>
  /\ batchScheduled' = FALSE
  /\ pos' = 1
  /\ lastOp' = Op("flush", Absent, "", Absent, "")
  /\ UNCHANGED <<heap, subscriberStore, uncaught, disposers, calls>>

FlushStart ==
  /\ pos = 0
  /\ microtasks > 0
  /\ microtasks' = microtasks - 1
  /\ batch' = handlerBatch
  /\ handlerBatch' = <<>>
  /\ batchScheduled' = FALSE
  /\ pos' = 1
  /\ lastOp' = Op("flush", Absent, "", Absent, "")
  /\ UNCHANGED <<heap, subscriberStore, uncaught, disposers, calls>>

\* Fault: the loop walks the batch from its end.
LoopEntryReversed(b, i) == b[Len(b) + 1 - i]

\* Fault: no try/catch, the exception ends the loop and leaves the callback.
AfterThrowAbort(b, i) == [pos |-> Len(b) + 1, uncaught |-> TRUE]

\* The entry the loop `for (const {handler, record} of batch)` takes next.
LoopEntry(b, i) == b[i]

\* try { handler(record) } catch (error) { console.error(...) }: where the
\* loop stands after the listener threw, and whether the exception got out.
AfterThrow(b, i) == [pos |-> i + 1, uncaught |-> FALSE]

\* One iteration: the listener returns, ...
InvokeReturn ==
  /\ pos >= 1 /\ pos <= Len(batch)
  /\ calls' = Append(calls, LoopEntry(batch, pos))
  /\ pos' = pos + 1
  /\ lastOp' = Op("invoke", LoopEntry(batch, pos).record, "", Absent,
                  LoopEntry(batch, pos).handler)
  /\ UNCHANGED <<heap, subscriberStore, handlerBatch, batchScheduled, microtasks,
                 batch, uncaught, disposers>>

\* ... throws, ...
InvokeThrow ==
  /\ pos >= 1 /\ pos <= Len(batch)
  /\ calls' = Append(calls, LoopEntry(batch, pos))
  /\ pos' = AfterThrow(batch, pos).pos
  /\ uncaught' = (uncaught \/ AfterThrow(batch, pos).uncaught)
  /\ lastOp' = Op("invoke-throws", LoopEntry(batch, pos).record, "", Absent,
                  LoopEntry(batch, pos).handler)
  /\ UNCHANGED <<heap, subscriberStore, handlerBatch, batchScheduled, microtasks,
                 batch, disposers>>

\* Fault: the flush callback loops over handlerBatch itself, so what a
\* listener's write enqueues joins the batch that is being delivered.
InvokeSetIntoRunningBatch(f, key, value) ==
  /\ pos >= 1 /\ pos <= Len(batch)
  /\ SetAllowed(Machine, f, key, value)
  /\ LET M == HandlerSet(Machine, f, key, value)
     IN /\ Install([M EXCEPT !.handlerBatch = handlerBatch,
                             !.batchScheduled = batchScheduled,
                             !.microtasks = microtasks,
                             !.calls = Append(calls, LoopEntry(batch, pos))])
        /\ batch' = batch \o SubSeq(M.handlerBatch, Len(handlerBatch) + 1,
                                    Len(M.handlerBatch))
  /\ pos' = pos + 1
  /\ lastOp' = Op("invoke-set", f, key, value, LoopEntry(batch, pos).handler)
  /\ UNCHANGED <<uncaught, disposers>>

\* ... or writes through a facade and returns.
InvokeSet(f, key, value) ==
  /\ pos >= 1 /\ pos <= Len(batch)
  /\ SetAllowed(Machine, f, key, value)
  /\ Install([HandlerSet(Machine, f, key, value) EXCEPT
                !.calls = Append(calls, LoopEntry(batch, pos))])
  /\ pos' = pos + 1
  /\ lastOp' = Op("invoke-set", f, key, value, LoopEntry(batch, pos).handler)
  /\ UNCHANGED <<batch, uncaught, disposers>>

\* The loop is over and the callback returns.
FlushEnd ==
  /\ pos >= 1 /\ pos > Len(batch)
  /\ pos' = 0
  /\ batch' = <<>>
  /\ calls' = <<>>
  /\ lastOp' = Op("flush-end", Absent, "", Absent, "")
  /\ UNCHANGED <<heap, subscriberStore, handlerBatch, batchScheduled, microtasks,
                 uncaught, disposers>>

\* Client code of Spec works on the root object alone, through the object
\* itself and its facade, and writes numbers.
RootHandles == {h \in Handles : h.n = 1 /\ h.lvl <= 1}

RootFacades == {h \in FacadeHandles : h.n = 1 /\ h.lvl <= 1}

Numbers == {Num(0), Num(1)}

Next ==
  \/ \E obj \in RootHandles, saveToStore \in BOOLEAN : ClientProxy(obj, saveToStore)
  \/ \E f \in RootFacades, key \in Keys : ClientGet(f, key)
  \/ \E f \in RootFacades, key \in Keys, value \in Numbers : ClientSet(f, key, value)
  \/ \E f \in RootFacades, key \in Keys : ClientDelete(f, key)
  \/ \E obj \in RootHandles, key \in Keys, handler \in Handlers :
       ClientSubscribe(obj, key, handler)
  \/ \E handler \in Handlers : ClientUnsubscribe(handler)
  \/ FlushStart
  \/ InvokeReturn
  \/ InvokeThrow
  \/ \E f \in RootFacades, key \in Keys, value \in Numbers : InvokeSet(f, key, value)
  \/ FlushEnd

Spec == Init /\ [][Next]_vars


(***************************************************************************)
(* SpecNested: the root holds an object that holds an object, as in        *)
(*   proxy({ count: 0, foo: { bar: "bazz", gazz: { fi: "do" } } })         *)
(* of the stories.  Client code works through the objects and their        *)
(* facades, replaces the nested objects and deletes properties; listeners  *)
(* return.                                                                 *)
(***************************************************************************)
InitNested == InitWith(NestedHeap)

DirectHandles == {h \in Handles : h.lvl <= 1}

DirectFacades == {h \in Handles : h.lvl = 1}

\* What client code assigns: root.b = 0 | object 2 | object 3,
\* 2.a = 0 | 1, 2.b = object 3, 3.a = 0 | 1.  The heap stays acyclic
\* (deepEqual does not terminate on a cycle).
NestedWrites ==
  {<<1, "b", Num(0)>>, <<1, "b", Raw(2)>>, <<1, "b", Raw(3)>>,
   <<2, "a", Num(0)>>, <<2, "a", Num(1)>>, <<2, "b", Raw(3)>>,
   <<3, "a", Num(0)>>, <<3, "a", Num(1)>>}

NestedDeletes == {<<2, "a">>, <<2, "b">>}

\* One listener is subscribed.
NestedHandlers == {"h1"}

NextNested ==
  \/ \E f \in DirectFacades, key \in Keys : ClientGet(f, key)
  \/ \E w \in NestedWrites : ClientSet(Ref(w[1], 1), w[2], w[3])
  \/ \E d \in NestedDeletes : ClientDelete(Ref(d[1], 1), d[2])
  \/ \E obj \in DirectHandles, key \in Keys, handler \in NestedHandlers :
       ClientSubscribe(obj, key, handler)
  \/ \E handler \in NestedHandlers : ClientUnsubscribe(handler)
  \/ FlushStart
  \/ InvokeReturn
  \/ FlushEnd

SpecNested == InitNested /\ [][NextNested]_vars


(***************************************************************************)
(* SpecWrap: client code wraps the root, wraps the facade again            *)
(*   p1 = proxy(x), p2 = proxy(p1)                                         *)
(* and subscribes and writes through x, p1 and p2.  Listeners return and   *)
(* no subscription is disposed of.                                         *)
(***************************************************************************)
WrapHandles == {h \in Handles : h.n = 1}

WrapFacades == {h \in FacadeHandles : h.n = 1}

NextWrap ==
  \/ \E obj \in WrapHandles, saveToStore \in BOOLEAN : ClientProxy(obj, saveToStore)
  \/ \E f \in WrapFacades, key \in Keys, value \in Numbers : ClientSet(f, key, value)
  \/ \E obj \in WrapHandles, key \in Keys, handler \in Handlers :
       ClientSubscribe(obj, key, handler)
  \/ FlushStart
  \/ InvokeReturn
  \/ FlushEnd

SpecWrap == Init /\ [][NextWrap]_vars

(***************************************************************************)
(* Properties.  A step is named by lastOp', its pre-state by the unprimed  *)
(* variables.                                                              *)
(***************************************************************************)
\* The step is a write made by client code through a facade.
WriteStep == lastOp'.op \in {"set", "set-equal"}

\* The step only added entries to the pending batch; Enqueued are those entries.
Appends ==
  /\ Len(handlerBatch') >= Len(handlerBatch)
  /\ SubSeq(handlerBatch', 1, Len(handlerBatch)) = handlerBatch

Enqueued == SubSeq(handlerBatch', Len(handlerBatch) + 1, Len(handlerBatch'))

\* One (listener, payload) pair per listener of a list, in the list's order.
Pairs(list, payload) ==
  [i \in 1..Len(list) |-> [handler |-> list[i], record |-> payload]]

\* The listeners registered for object o under path-key q.
Listeners(o, q) == subscriberStore[Raw(o)].map[q]

\* Identical, or composites with the same keys holding structurally equal
\* values.
RECURSIVE StructurallyEqual(_, _, _)
StructurallyEqual(hp, a, b) ==
  IF a.tag = "object" /\ b.tag = "object"
  THEN LET ka == {k \in Keys : hp[a.n].props[k] # Absent}
           kb == {k \in Keys : hp[b.n].props[k] # Absent}
       IN /\ ka = kb
          /\ \A k \in ka : StructurallyEqual(hp, hp[a.n].props[k], hp[b.n].props[k])
  ELSE a = b

\* The write of the step changes the value the property holds.
RealChange ==
  ~StructurallyEqual(heap, heap[lastOp'.obj.n].props[lastOp'.key], lastOp'.val)

\* C1: a write through a facade to a key with at least one listener enqueues
\* listener invocations if and only if the written value is neither identical
\* nor deep-equal to the value held before; a write of an identical primitive
\* or of a structurally equal composite enqueues nothing.
C1_WriteNotifiesIffChanged ==
  [][(WriteStep /\ Listeners(lastOp'.obj.n, lastOp'.key) # <<>>)
       => /\ Appends
          /\ (Enqueued # <<>>) <=> RealChange]_vars

\* C1 witness: object 3, another object structurally equal to object 2, was
\* written over object 2 into a key that has a listener; nothing was enqueued.
C1_Witness ==
  /\ lastOp.op = "set-equal"
  /\ lastOp.obj = Ref(1, 1) /\ lastOp.key = "b" /\ lastOp.val = Raw(3)
  /\ heap[1].props["b"] = Raw(2)
  /\ subscriberStore[Raw(1)].map["b"] = <<"h1">>
  /\ handlerBatch = <<>>

\* C2: with listeners subscribed to a key of the wrapped object, one
\* real-change write of v to that key enqueues exactly one invocation per
\* listener, with payload v; no listener is called during the write; the
\* flush that was scheduled takes those entries and has called each of them
\* exactly once when it ends.
C2_OneDeferredCall ==
  [][/\ (WriteStep /\ heap[1].props[lastOp'.key] # lastOp'.val)
          => /\ Appends
             /\ Enqueued = Pairs(Listeners(1, lastOp'.key), lastOp'.val)
             /\ calls' = calls /\ pos' = 0
             /\ (Listeners(1, lastOp'.key) # <<>>) => (microtasks' = 1)
     /\ (lastOp'.op = "flush") => (batch' = handlerBatch /\ calls' = <<>>)
     /\ (lastOp'.op = "flush-end") => (calls = batch)]_vars

\* C2 witness: state.a = 1 was written with h1 subscribed to "a", and the
\* flush has made its one call h1(1).
C2_Witness ==
  /\ lastOp.op = "invoke" /\ lastOp.fn = "h1"
  /\ batch = <<[handler |-> "h1", record |-> Num(1)]>>
  /\ calls = batch
  /\ pos = 2
  /\ heap[1].props["a"] = Num(1)

\* C3: at most one flush is scheduled at any time, one is scheduled whenever
\* invocations are pending, nothing leaves the pending batch while client
\* code runs, and the flush takes the whole pending batch at once: the
\* invocations of one turn are delivered by a single flush.
C3_SingleFlush ==
  [][/\ microtasks' <= 1
     /\ batchScheduled' <=> (microtasks' = 1)
     /\ (handlerBatch' # <<>>) => (microtasks' = 1)
     /\ (pos = 0 /\ pos' = 0) => Appends
     /\ (lastOp'.op = "flush") => (batch' = handlerBatch /\ handlerBatch' = <<>>)]_vars

\* C3 witness: a flush starts with the invocations of two listeners, enqueued
\* in one turn, and no further flush is scheduled.
C3_Witness ==
  /\ lastOp.op = "flush"
  /\ Len(batch) = 2
  /\ batch[1].handler # batch[2].handler
  /\ handlerBatch = <<>>
  /\ microtasks = 0

\* C4: within a flush the listeners are called in the order of the batch,
\* which is the order in which the pairs were enqueued.
C4_EnqueueOrder ==
  /\ Len(calls) <= Len(batch)
  /\ calls = SubSeq(batch, 1, Len(calls))
  /\ (pos >= 1) => (Len(calls) = pos - 1)

\* C4 witness: a flush has called two different pairs.
C4_Witness ==
  /\ pos = 3
  /\ Len(batch) = 2
  /\ batch[1] # batch[2]
  /\ calls = batch

\* C5: when a listener throws, the exception does not leave the flush, the
\* loop goes on with the next entry, the heap keeps the written value, and
\* the flush ends only after every entry of its batch was called.
C5_ThrowIsContained ==
  [][/\ (lastOp'.op = "invoke-throws")
          => (~uncaught' /\ pos' = pos + 1 /\ batch' = batch /\ heap' = heap)
     /\ (lastOp'.op = "flush-end") => (calls = batch /\ ~uncaught)]_vars

\* C5 witness: the first of two listeners threw; the write that enqueued it
\* is in the heap and the second listener is next.
C5_Witness ==
  /\ lastOp.op = "invoke-throws"
  /\ Len(batch) = 2
  /\ pos = 2
  /\ ~uncaught
  /\ \E k \in Keys : heap[1].props[k] = batch[1].record /\ batch[1].record = Num(1)

\* C6: subscribe(obj, key, h) with obj[key] a wrappable object appends h to
\* the SELF_SYMBOL list of that child and leaves the list of key on obj as it
\* was; a real-change write to a property of an object enqueues every
\* listener of the object's SELF_SYMBOL list.
C6_RedirectToChild ==
  [][/\ (lastOp'.op = "subscribe"
           /\ heap[lastOp'.obj.n].props[lastOp'.key].tag = "object")
          => LET child == heap[lastOp'.obj.n].props[lastOp'.key]
             IN /\ subscriberStore'[child].has
                /\ subscriberStore'[child].map[SELF_SYMBOL]
                     = Append(subscriberStore[child].map[SELF_SYMBOL], lastOp'.fn)
                /\ subscriberStore'[Raw(lastOp'.obj.n)].map[lastOp'.key]
                     = Listeners(lastOp'.obj.n, lastOp'.key)
     /\ (WriteStep /\ RealChange)
          => \A i \in DOMAIN Listeners(lastOp'.obj.n, SELF_SYMBOL) :
               \E j \in DOMAIN Enqueued :
                 Enqueued[j].handler = Listeners(lastOp'.obj.n, SELF_SYMBOL)[i]]_vars

\* C6 witness: h1 was subscribed where object 2 is held, and a write to a
\* property of object 2 enqueued it.
C6_Witness ==
  /\ lastOp.op = "set" /\ lastOp.obj = Ref(2, 1)
  /\ disposers["h1"] = [targetObject |-> Raw(2), subscribeKey |-> SELF_SYMBOL]
  /\ heap[1].props["b"] = Raw(2)
  /\ handlerBatch = <<[handler |-> "h1", record |-> Raw(2)]>>

\* C7: a real-change write to a property of object G enqueues the listeners
\* registered on G under that property and under G's SELF_SYMBOL, and no
\* others: none registered on an object that contains G.
C7_OneLevel ==
  [][WriteStep
       => /\ Appends
          /\ Enqueued =
               IF RealChange
               THEN Pairs(Listeners(lastOp'.obj.n, lastOp'.key), lastOp'.val)
                      \o Pairs(Listeners(lastOp'.obj.n, SELF_SYMBOL), Raw(lastOp'.obj.n))
               ELSE <<>>]_vars

\* C7 witness: h1 is on the SELF_SYMBOL list of object 2, which holds object
\* 3; a real-change write to a property of object 3 enqueued nothing.
C7_Witness ==
  /\ lastOp.op = "set" /\ lastOp.obj = Ref(3, 1)
  /\ heap[1].props["b"] = Raw(2)
  /\ heap[2].props["b"] = Raw(3)
  /\ subscriberStore[Raw(2)].map[SELF_SYMBOL] = <<"h1">>
  /\ handlerBatch = <<>>

\* C8: the disposer of a subscription empties the listener list at the
\* path-key the subscription went to and changes no other list; a write to a
\* key whose lists are empty enqueues nothing, so after h1's disposer ran
\* neither h1 nor h2 is invoked for that path.
C8_DisposerClearsPath ==
  [][/\ (lastOp'.op = "unsubscribe")
          => LET place == disposers[lastOp'.fn]
             IN /\ subscriberStore'[place.targetObject].map[place.subscribeKey] = <<>>
                /\ \A x \in StoreKeys, q \in PathKeys :
                     (<<x, q>> # <<place.targetObject, place.subscribeKey>>)
                       => (subscriberStore'[x].map[q] = subscriberStore[x].map[q])
     /\ (WriteStep /\ Listeners(lastOp'.obj.n, lastOp'.key) = <<>>
           /\ Listeners(lastOp'.obj.n, SELF_SYMBOL) = <<>>)
          => (handlerBatch' = handlerBatch)]_vars

\* C8 witness: h1 and h2 were subscribed to one path and enqueued by one
\* write; h1's disposer ran and the list of the path is empty.
C8_Witness ==
  /\ lastOp.op = "unsubscribe" /\ lastOp.fn = "h1"
  /\ disposers["h1"] = disposers["h2"]
  /\ disposers["h1"] = [targetObject |-> Raw(1), subscribeKey |-> "a"]
  /\ subscriberStore[Raw(1)].map["a"] = <<>>
  /\ handlerBatch = <<[handler |-> "h1", record |-> Num(1)],
                      [handler |-> "h2", record |-> Num(1)]>>

\* C9: a delete through a facade removes the property from the object and
\* changes nothing else in the heap; it leaves the registry, the pending
\* batch and the scheduling of the flush as they were.
C9_DeleteIsSilent ==
  [][(lastOp'.op = "delete")
       => /\ heap' = [heap EXCEPT ![lastOp'.obj.n].props[lastOp'.key] = Absent]
          /\ UNCHANGED <<subscriberStore, handlerBatch, batchScheduled, microtasks>>]_vars

\* C9 witness: property "a" of object 2, which has a listener of its own and
\* was written, is deleted; the pending batch holds what the write enqueued.
C9_Witness ==
  /\ lastOp.op = "delete" /\ lastOp.obj = Ref(2, 1) /\ lastOp.key = "a"
  /\ heap[2].props["a"] = Absent
  /\ subscriberStore[Raw(2)].map["a"] = <<"h1">>
  /\ handlerBatch = <<[handler |-> "h1", record |-> Num(1)]>>

\* C10: a listener subscribed to a key of x through x, proxy(x) or
\* proxy(proxy(x)) is enqueued by a real-change write to that key made
\* through either facade.
C10_WrapIsIdempotent ==
  [][(WriteStep /\ heap[1].props[lastOp'.key] # lastOp'.val)
       => \A h \in Handlers :
            (disposers[h] # NoPlace /\ disposers[h].subscribeKey = lastOp'.key)
              => \E j \in DOMAIN Enqueued :
                   Enqueued[j] = [handler |-> h, record |-> lastOp'.val]]_vars

\* C11: every key of subscriberStore is an unwrapped object, never a facade.
C11_RegistryKeysCanonical ==
  \A x \in StoreKeys : subscriberStore[x].has => IsRaw(x)


(***************************************************************************)
(* SpecReads: the story of part_001:31-47 with state = { a: 0, b: object 2 }*)
(*   subscribe(state.b, "a", h);  state.b.a = v                            *)
(* Every read of state.b hands out a facade of its own over object 2.      *)
(* Listener h1 is subscribed through such a facade, h2 through object 2    *)
(* itself or through the facade proxy(object 2) that client code keeps;    *)
(* writes go through a facade read from state.b or through the kept one.   *)
(***************************************************************************)
\* subscribe(f[k], key, handler) with f[k] a composite
ClientSubscribeNested(f, k, key, handler) ==
  /\ pos = 0
  /\ disposers[handler] = NoPlace
  /\ LET got == HandlerGet(Machine, f, k)
     IN /\ IsFacade(got.val)
        /\ ~SubscribeThrows(got.m, got.val, key)
        /\ Install(subscribe(got.m, got.val, key, handler))
        /\ lastOp' = Op("subscribe", got.val, key, Absent, handler)
        /\ disposers' = [disposers EXCEPT ![handler] = SubscribePlace(got.m, got.val, key)]
  /\ UNCHANGED <<batch, pos, uncaught>>

\* f[k][key] = value with f[k] a composite
ClientSetNested(f, k, key, value) ==
  /\ pos = 0
  /\ LET got == HandlerGet(Machine, f, k)
     IN /\ IsFacade(got.val)
        /\ SetAllowed(got.m, got.val, key, value)
        /\ Install(HandlerSet(got.m, got.val, key, value))
        /\ lastOp' = Op(SetOp(got.m, got.val, key, value), got.val, key, value, "")
  /\ UNCHANGED <<batch, pos, uncaught, disposers>>

NextReads ==
  \/ ClientSubscribeNested(Ref(1, 1), "b", "a", "h1")
  \/ \E obj \in {Raw(2), Ref(2, 1)} : ClientSubscribe(obj, "a", "h2")
  \/ \E value \in Numbers : ClientSetNested(Ref(1, 1), "b", "a", value)
  \/ \E value \in Numbers : ClientSet(Ref(2, 1), "a", value)
  \/ ClientGet(Ref(1, 1), "b")
  \/ FlushStart
  \/ InvokeReturn
  \/ FlushEnd

SpecReads == InitNested /\ [][NextReads]_vars

\* C12: a subscription to a key of an object lands on the list of the
\* unwrapped object whether it is made through the object, through a facade
\* client code keeps or through a facade handed out by a read; a real-change
\* write through any facade of the object enqueues every listener of that
\* list with the written value.
C12_FacadesShareStream ==
  [][/\ (lastOp'.op = "subscribe")
          => LET place == [targetObject |-> Raw(lastOp'.obj.n),
                           subscribeKey |-> lastOp'.key]
             IN /\ disposers'[lastOp'.fn] = place
                /\ subscriberStore'[Raw(lastOp'.obj.n)].map[lastOp'.key]
                     = Append(Listeners(lastOp'.obj.n, lastOp'.key), lastOp'.fn)
     /\ (WriteStep /\ heap[lastOp'.obj.n].props[lastOp'.key] # lastOp'.val)
          => \A h \in Handlers :
               (disposers[h] = [targetObject |-> Raw(lastOp'.obj.n),
                                subscribeKey |-> lastOp'.key])
                 => \E j \in DOMAIN Enqueued :
                      Enqueued[j] = [handler |-> h, record |-> lastOp'.val]]_vars

\* C12 witness: a write through a facade read from state.b enqueued h1,
\* subscribed through another facade read from state.b, and h2, subscribed
\* through object 2 or the kept facade.
C12_Witness ==
  /\ lastOp.op = "set" /\ lastOp.obj = Fresh(2, 1)
  /\ disposers["h1"] # NoPlace /\ disposers["h2"] # NoPlace
  /\ \E i, j \in DOMAIN handlerBatch :
       /\ handlerBatch[i] = [handler |-> "h1", record |-> lastOp.val]
       /\ handlerBatch[j] = [handler |-> "h2", record |-> lastOp.val]


\* C13: every write through a facade, suppressed or not, leaves the written
\* value in the property of the underlying object.
C13_SuppressedWriteAssigns ==
  [][WriteStep => (heap'[lastOp'.obj.n].props[lastOp'.key] = lastOp'.val)]_vars


\* C14: subscribe(obj, key, h) with obj[key] not a wrappable object (a
\* primitive, or an absent key) raises no error and appends h to the list of
\* the unwrapped obj under key.
C14_SubscribeIsTotal ==
  [][(lastOp'.op \in {"subscribe", "subscribe-throws"}
        /\ heap[lastOp'.obj.n].props[lastOp'.key].tag # "object")
       => /\ lastOp'.op = "subscribe"
          /\ subscriberStore'[Raw(lastOp'.obj.n)].map[lastOp'.key]
               = Append(Listeners(lastOp'.obj.n, lastOp'.key), lastOp'.fn)]_vars


\* C15: a subscription made while obj[key] is a primitive goes to the list of
\* (unwrapped obj, key); the lists change only when subscribe or a disposer
\* runs, so it stays there; every real-change write of key on obj, a write of
\* a composite included, enqueues it with the written value; a write to
\* another object, the composite included, enqueues only listeners of that
\* object.
C15_PrimitiveSubscriptionStays ==
  [][/\ (lastOp'.op = "subscribe"
           /\ heap[lastOp'.obj.n].props[lastOp'.key].tag = "number")
          => (disposers'[lastOp'.fn] = [targetObject |-> Raw(lastOp'.obj.n),
                                        subscribeKey |-> lastOp'.key])
     /\ (lastOp'.op \notin {"subscribe", "unsubscribe"})
          => \A x \in StoreKeys : subscriberStore'[x].map = subscriberStore[x].map
     /\ (WriteStep /\ RealChange)
          => /\ Len(Enqueued) >= Len(Listeners(lastOp'.obj.n, lastOp'.key))
             /\ \A i \in DOMAIN Listeners(lastOp'.obj.n, lastOp'.key) :
                  Enqueued[i] = [handler |-> Listeners(lastOp'.obj.n, lastOp'.key)[i],
                                 record |-> lastOp'.val]
     /\ WriteStep
          => \A j \in DOMAIN Enqueued :
               \E q \in {lastOp'.key, SELF_SYMBOL} :
                 \E i \in DOMAIN Listeners(lastOp'.obj.n, q) :
                   Enqueued[j].handler = Listeners(lastOp'.obj.n, q)[i]]_vars

\* C15 witness: h1 was subscribed to key "b" of the root while it held a
\* number; the write of an object to that key enqueued h1 with the object.
C15_Witness ==
  /\ lastOp.op = "set" /\ lastOp.obj = Ref(1, 1) /\ lastOp.key = "b"
  /\ lastOp.val.tag = "object"
  /\ heap[1].props["b"] = lastOp.val
  /\ disposers["h1"] = [targetObject |-> Raw(1), subscribeKey |-> "b"]
  /\ subscriberStore[Raw(1)].map["b"] = <<"h1">>
  /\ handlerBatch = <<[handler |-> "h1", record |-> lastOp.val]>>


\* C16: with h subscribed through subscribe(state, "b", h) while state.b
\* holds object 2 (object 2 is held nowhere else), assigning state.b a new
\* object that is not deep-equal to object 2 enqueues h.
C16_ReplacedObjectNotifies ==
  [][(WriteStep /\ lastOp'.obj.n = 1 /\ lastOp'.key = "b"
        /\ heap[1].props["b"] = Raw(2) /\ lastOp'.val.tag = "object" /\ RealChange)
       => \A i \in DOMAIN Listeners(2, SELF_SYMBOL) :
            \E j \in DOMAIN Enqueued :
              Enqueued[j].handler = Listeners(2, SELF_SYMBOL)[i]]_vars


(***************************************************************************)
(* SpecMount: components using useSubscribe(state, "a")                    *)
(* (part_003:385-413).  A component subscribes its listener when it mounts *)
(* and calls the disposer when it unmounts; a mounted component is one     *)
(* whose disposer exists.                                                  *)
(***************************************************************************)
\* the effect of useSubscribe runs
ClientMount(f, key, handler) == ClientSubscribe(f, key, handler)

\* the cleanup of the effect runs
ClientUnmount(handler) ==
  /\ pos = 0
  /\ disposers[handler] # NoPlace
  /\ Install(Unsubscribe(Machine, disposers[handler]))
  /\ lastOp' = Op("unmount", disposers[handler].targetObject,
                  disposers[handler].subscribeKey, Absent, handler)
  /\ disposers' = [disposers EXCEPT ![handler] = NoPlace]
  /\ UNCHANGED <<batch, pos, uncaught>>

NextMount ==
  \/ \E handler \in Handlers : ClientMount(Ref(1, 1), "a", handler)
  \/ \E handler \in Handlers : ClientUnmount(handler)
  \/ \E value \in Numbers : ClientSet(Ref(1, 1), "a", value)
  \/ FlushStart
  \/ InvokeReturn
  \/ FlushEnd

SpecMount == Init /\ [][NextMount]_vars

\* C17: every real-change write of the key enqueues the listener of every
\* component that is mounted, with the written value.
C17_MountedConsumerIsNotified ==
  [][(WriteStep /\ heap[1].props[lastOp'.key] # lastOp'.val)
       => \A h \in Handlers :
            (disposers[h] # NoPlace)
              => \E j \in DOMAIN Enqueued :
                   Enqueued[j] = [handler |-> h, record |-> lastOp'.val]]_vars


\* C18: the pending batch is non-empty only while a flush is scheduled; the
\* flag is set exactly when one flush callback is queued, and never more than
\* one is; right after the flush callback started, before any listener ran,
\* the pending batch is empty and the flag is reset.
C18_FlagAndBatch ==
  /\ microtasks \in {0, 1}
  /\ batchScheduled = (microtasks = 1)
  /\ (handlerBatch # <<>>) => batchScheduled
  /\ (lastOp.op = "flush")
       => (handlerBatch = <<>> /\ ~batchScheduled /\ calls = <<>> /\ pos = 1)

\* C18 witness: while a flush runs, a listener's write has put an entry in
\* the new pending batch and one flush is scheduled for it.
C18_Witness ==
  /\ pos >= 1
  /\ Len(batch) >= 1
  /\ Len(handlerBatch) = 1
  /\ batchScheduled
  /\ microtasks = 1
  /\ lastOp.op = "invoke-set"


(***************************************************************************)
(* SpecLive: subscriptions, disposers and writes on one key, with the      *)
(* scheduling JavaScript guarantees: a queued microtask runs once the      *)
(* running code has returned, a listener call returns or throws, and the   *)
(* loop over the batch comes to its end.                                   *)
(***************************************************************************)
NextLive ==
  \/ \E handler \in Handlers : ClientSubscribe(Ref(1, 1), "a", handler)
  \/ \E handler \in Handlers : ClientUnsubscribe(handler)
  \/ \E value \in Numbers : ClientSet(Ref(1, 1), "a", value)
  \/ FlushStart
  \/ InvokeReturn
  \/ InvokeThrow
  \/ FlushEnd

SpecLive ==
  /\ Init
  /\ [][NextLive]_vars
  /\ WF_vars(FlushStart)
  /\ WF_vars(InvokeReturn \/ InvokeThrow)
  /\ WF_vars(FlushEnd)

\* A pair is in the pending batch / was called by the running flush.
Pending(h, v) ==
  \E i \in DOMAIN handlerBatch : handlerBatch[i] = [handler |-> h, record |-> v]

Called(h, v) ==
  \E i \in DOMAIN calls : calls[i] = [handler |-> h, record |-> v]

\* C19: every pair in the pending batch is eventually called; the flush takes
\* every pending pair, and when its loop is over it has called each pair of
\* its batch exactly once.
C19_EveryPairIsInvokedOnce ==
  /\ \A h \in Handlers, v \in Numbers : Pending(h, v) ~> Called(h, v)
  /\ [][(lastOp'.op = "flush") => (batch' = handlerBatch)]_vars
  /\ []((pos > Len(batch)) => (calls = batch))

\* C19 witness: the two pairs that one turn enqueued have both been called
\* and nothing is pending.
C19_Witness ==
  /\ pos = 3
  /\ Len(batch) = 2
  /\ calls = batch
  /\ handlerBatch = <<>>
  /\ microtasks = 0
  /\ lastOp.op \in {"invoke", "invoke-throws"}


\* C20: the step of a real-change write enqueues and commits the value and
\* calls no listener; a write made by a listener adds nothing to the batch
\* that is being delivered; listeners are called only by the flush, and by
\* then the heap holds what the writes left: a listener call that writes
\* nothing changes no property.
C20_ListenerRunsAfterCommit ==
  [][/\ (WriteStep /\ heap[lastOp'.obj.n].props[lastOp'.key] # lastOp'.val)
          => /\ heap'[lastOp'.obj.n].props[lastOp'.key] = lastOp'.val
             /\ calls' = calls /\ calls = <<>>
             /\ pos = 0 /\ pos' = 0
     /\ (lastOp'.op = "invoke-set") => (batch' = batch /\ Len(calls') = Len(calls) + 1)
     /\ (calls' # calls /\ calls' # <<>>)
          => /\ pos >= 1
             /\ lastOp'.op \in {"invoke", "invoke-throws", "invoke-set"}
     /\ (lastOp'.op \in {"invoke", "invoke-throws"}) => (heap' = heap)]_vars

\* C20 witness: the flush has called the first of two entries with different
\* payloads; the heap already holds the value of the second entry's write.
C20_Witness ==
  /\ lastOp.op = "invoke"
  /\ Len(batch) = 2
  /\ pos = 2
  /\ calls = <<batch[1]>>
  /\ batch[1].record # batch[2].record
  /\ heap[1].props["a"] = batch[2].record



(***************************************************************************)
(* SpecReenter: listeners that write.  Listeners of key "a" of the root    *)
(* return or assign the key through the facade while the flush loop runs   *)
(* (part_002:72-78 calling into the set trap, part_002:105-128), with the  *)
(* scheduling of SpecLive.                                                 *)
(***************************************************************************)
NextReenter ==
  \/ \E handler \in Handlers : ClientSubscribe(Ref(1, 1), "a", handler)
  \/ \E value \in Numbers : ClientSet(Ref(1, 1), "a", value)
  \/ FlushStart
  \/ InvokeReturn
  \/ \E value \in Numbers : InvokeSet(Ref(1, 1), "a", value)
  \/ FlushEnd

SpecReenter ==
  /\ Init
  /\ [][NextReenter]_vars
  /\ WF_vars(FlushStart)
  /\ WF_vars(InvokeReturn)
  /\ WF_vars(FlushEnd)

\* The batches a turn can leave pending.
PendingBatches ==
  UNION {[1..n -> [handler : Handlers, record : Numbers]] : n \in 1..MaxBatch}

\* b is the beginning of s.
StartsWith(s, b) == Len(s) >= Len(b) /\ SubSeq(s, 1, Len(b)) = b

\* C21: a real-change write made by a listener during a flush enqueues the
\* listeners of the key, with the written value, into the pending batch and
\* not into the batch being delivered, and schedules exactly one flush; the
\* running flush goes on to call every entry of its own batch before it ends,
\* the next flush starts only after that, and it starts with the entries the
\* listener's write enqueued: none is lost.
C21_ReentrantWriteIsDeferred ==
  /\ [][/\ (lastOp'.op = "invoke-set" /\ heap[1].props[lastOp'.key] # lastOp'.val)
             => /\ Appends
                /\ Enqueued = Pairs(Listeners(1, lastOp'.key), lastOp'.val)
                /\ batch' = batch
                /\ heap'[1].props[lastOp'.key] = lastOp'.val
                /\ (Enqueued # <<>>) => (microtasks' = 1 /\ batchScheduled')
        /\ (pos >= 1 /\ pos' >= 1) => (Appends /\ batch' = batch)
        /\ (lastOp'.op = "flush-end") => (calls = batch)
        /\ (lastOp'.op = "flush")
             => (pos = 0 /\ batch' = handlerBatch /\ microtasks' = 0)]_vars
  /\ [](microtasks <= 1)
  /\ \A b \in PendingBatches :
       (pos >= 1 /\ handlerBatch = b) ~> (lastOp.op = "flush" /\ StartsWith(batch, b))

\* C21 witness: h1, the first of two entries of the running flush, wrote the
\* key; both listeners of the key are in the pending batch with the written
\* value, one flush is scheduled, and the running flush has an entry left.
C21_Witness ==
  /\ lastOp.op = "invoke-set" /\ lastOp.fn = "h1"
  /\ pos = 2
  /\ Len(batch) = 2
  /\ calls = <<batch[1]>>
  /\ heap[1].props["a"] = lastOp.val
  /\ handlerBatch = <<[handler |-> "h1", record |-> lastOp.val],
                      [handler |-> "h2", record |-> lastOp.val]>>
  /\ microtasks = 1



(***************************************************************************)
(* SpecRegister: registration.  Over the nested objects of the stories     *)
(* client code wraps objects and facades, with and without registration    *)
(* (part_002:136-166), reads properties through the facades                *)
(* (part_002:93-104), subscribes and disposes.  Nothing is written.        *)
(***************************************************************************)
NextRegister ==
  \/ \E obj \in Handles, saveToStore \in BOOLEAN : ClientProxy(obj, saveToStore)
  \/ \E f \in FacadeHandles, key \in Keys : ClientGet(f, key)
  \/ \E obj \in DirectHandles, key \in Keys, handler \in NestedHandlers :
       ClientSubscribe(obj, key, handler)
  \/ \E handler \in NestedHandlers : ClientUnsubscribe(handler)

SpecRegister == InitNested /\ [][NextRegister]_vars

\* The step is a read through a facade or a call of proxy.
RegistrationStep == lastOp'.op \in {"get", "proxy", "proxy-register"}

\* C22: a read through a facade and a call of proxy leave every existing
\* registry entry, and every listener list, as they were; a read of a
\* composite leaves an entry for the composite behind, a read of anything
\* else and proxy(obj) or proxy(obj, false) leave the registry unchanged, and
\* proxy(obj, true) adds at most the entry of obj; no step removes an entry.
C22_RegistrationPreserves ==
  [][/\ RegistrationStep
          => /\ \A x \in StoreKeys :
                  /\ subscriberStore[x].has => (subscriberStore'[x] = subscriberStore[x])
                  /\ subscriberStore'[x].map = subscriberStore[x].map
             /\ UNCHANGED <<heap, handlerBatch, batchScheduled, microtasks>>
     /\ (lastOp'.op = "proxy") => (subscriberStore' = subscriberStore)
     /\ (lastOp'.op = "proxy-register")
          => /\ subscriberStore'[lastOp'.obj].has
             /\ \A x \in StoreKeys \ {lastOp'.obj} : subscriberStore'[x] = subscriberStore[x]
     /\ (lastOp'.op = "get")
          => IF IsRaw(heap[lastOp'.obj.n].props[lastOp'.key])
             THEN subscriberStore'[heap[lastOp'.obj.n].props[lastOp'.key]].has
             ELSE subscriberStore' = subscriberStore
     /\ \A x \in StoreKeys : subscriberStore[x].has => subscriberStore'[x].has]_vars

\* C22 witness: object 2 has a listener on its SELF_SYMBOL list; root.b was
\* read through the facade twice in a row and the list is as it was.
C22_Witness ==
  /\ lastOp.op = "get" /\ lastOp.obj = Ref(1, 1) /\ lastOp.key = "b"
  /\ lastOp.rep = 1
  /\ subscriberStore[Raw(2)].has
  /\ subscriberStore[Raw(2)].map[SELF_SYMBOL] = <<"h1">>



(***************************************************************************)
(* SpecEqual: deepEqual as a function (deep-equal.ts:1-61).  The heap is   *)
(* drawn from a set of acyclic heaps of four objects, 1 and 2 holding      *)
(* primitives or their children 3 and 4; client code calls deepEqual on    *)
(* pairs of values.                                                        *)
(***************************************************************************)
EqualObj == 1..4

\* { a?, _owner?, $$typeof? }: plain objects, and elements as React makes
\* them ($$typeof set, _owner a back-reference).
PlainShapes(child) ==
  {[ctor |-> "Object",
    props |-> ("a" :> va) @@ ("_owner" :> vo) @@ ("$$typeof" :> vt)] :
     va \in {Absent, Num(0), Num(1), NaN, child},
     vo \in {Absent, Num(0), Num(1)},
     vt \in {Absent, Num(1)}}

\* Object.create(null) with { a? }
NullProtoShapes(child) ==
  {[ctor |-> "None",
    props |-> ("a" :> va) @@ ("_owner" :> Absent) @@ ("$$typeof" :> Absent)] :
     va \in {Absent, Num(0), Num(1), NaN, child}}

\* [], [x], [x, y]
ArrayShapes(child) ==
  {[ctor |-> "Array", props |-> ("length" :> Num(0)) @@ ("0" :> Absent) @@ ("1" :> Absent)]}
  \cup {[ctor |-> "Array",
         props |-> ("length" :> Num(1)) @@ ("0" :> x) @@ ("1" :> Absent)] :
          x \in {Num(0), child}}
  \cup {[ctor |-> "Array",
         props |-> ("length" :> Num(2)) @@ ("0" :> x) @@ ("1" :> y)] :
          x \in {Num(0), child}, y \in {Num(0), child}}

TopShapes(child) == PlainShapes(child) \cup NullProtoShapes(child) \cup ArrayShapes(child)

\* The children: { a: 0 } and { a: 1 }
ChildShapes == {sh \in PlainShapes(Null) : sh.props["a"] \in {Num(0), Num(1)}
                                            /\ sh.props["_owner"] = Absent
                                            /\ sh.props["$$typeof"] = Absent}

EqualHeaps ==
  {(1 :> s1) @@ (2 :> s2) @@ (3 :> s3) @@ (4 :> s4) :
     s1 \in TopShapes(Raw(3)), s2 \in TopShapes(Raw(4)),
     s3 \in ChildShapes, s4 \in ChildShapes}

InitEqual == \E hp \in EqualHeaps : InitWith(hp)

\* The pairs client code compares.
EqualPairs ==
  {<<Raw(1), Raw(2)>>, <<Raw(2), Raw(1)>>, <<Raw(3), Raw(4)>>, <<Raw(1), Raw(1)>>,
   <<Num(0), Num(1)>>, <<NaN, NaN>>, <<Null, Undefined>>, <<Null, Raw(1)>>}

\* deepEqual(a, b); lastOp.key holds what it returned.
ClientDeepEqual(a, b) ==
  /\ pos = 0
  /\ lastOp' = Op("deepEqual", a, IF deepEqual(heap, a, b) THEN "true" ELSE "false", b, "")
  /\ UNCHANGED <<heap, subscriberStore, handlerBatch, batchScheduled, microtasks,
                 batch, pos, uncaught, disposers, calls>>

NextEqual == \E p \in EqualPairs : ClientDeepEqual(p[1], p[2])

SpecEqual == InitEqual /\ [][NextEqual]_vars

\* A list is an array, a mapping any other object.
IsList(hp, v) == IsRef(v) /\ hp[v.n].ctor = "Array"

IsMapping(hp, v) == IsRef(v) /\ hp[v.n].ctor # "Array"

\* The elements of a list.
Elements(hp, v) ==
  [i \in 1..ArrayLength(hp, v.n) |-> OrdinaryGet(hp, v.n, ArrayKeys[i])]

\* The rule as the claim has it.
RECURSIVE ReferenceRule(_, _, _)
ReferenceRule(hp, a, b) ==
  \/ objectIs(a, b)
  \/ /\ IsList(hp, a) /\ IsList(hp, b)
     /\ Len(Elements(hp, a)) = Len(Elements(hp, b))
     /\ \A i \in DOMAIN Elements(hp, a) :
          ReferenceRule(hp, Elements(hp, a)[i], Elements(hp, b)[i])
  \/ /\ IsMapping(hp, a) /\ IsMapping(hp, b)
     /\ ObjectKeys(hp, a.n) = ObjectKeys(hp, b.n)
     /\ \A k \in ObjectKeys(hp, a.n) :
          ReferenceRule(hp, OrdinaryGet(hp, a.n, k), OrdinaryGet(hp, b.n, k))

\* The rule with the two clauses it leaves out: objects of different
\* constructors are not equal, and the key "_owner" is not compared when
\* the $$typeof of the first object is truthy.
RECURSIVE AmendedRule(_, _, _)
AmendedRule(hp, a, b) ==
  \/ objectIs(a, b)
  \/ /\ IsList(hp, a) /\ IsList(hp, b)
     /\ Len(Elements(hp, a)) = Len(Elements(hp, b))
     /\ \A i \in DOMAIN Elements(hp, a) :
          AmendedRule(hp, Elements(hp, a)[i], Elements(hp, b)[i])
  \/ /\ IsMapping(hp, a) /\ IsMapping(hp, b)
     /\ hp[a.n].ctor = hp[b.n].ctor
     /\ ObjectKeys(hp, a.n) = ObjectKeys(hp, b.n)
     /\ \A k \in ObjectKeys(hp, a.n) \ {"_owner"} :
          AmendedRule(hp, OrdinaryGet(hp, a.n, k), OrdinaryGet(hp, b.n, k))
     /\ ("_owner" \in ObjectKeys(hp, a.n) /\ ~Truthy(OrdinaryGet(hp, a.n, "$$typeof")))
          => AmendedRule(hp, OrdinaryGet(hp, a.n, "_owner"),
                             OrdinaryGet(hp, b.n, "_owner"))

\* What the last call of deepEqual returned.
Returned == lastOp.key = "true"

\* C23 as stated: deepEqual(a, b) returns what the reference rule gives:
\* identical values are equal, a list and a mapping never are, two lists are
\* equal iff they have the same length and pairwise deep-equal elements, two
\* mappings iff they have the same own keys and pairwise deep-equal values.
C23_AgreesWithReferenceRule ==
  (lastOp.op = "deepEqual")
    => (Returned <=> ReferenceRule(heap, lastOp.obj, lastOp.val))

\* C23 amended: deepEqual(a, b) returns what the reference rule gives once
\* the rule says that two mappings of different constructors are not equal
\* and that the key "_owner" is not compared when the first mapping's
\* $$typeof is truthy.
C23_AgreesWithAmendedRule ==
  (lastOp.op = "deepEqual")
    => (Returned <=> AmendedRule(heap, lastOp.obj, lastOp.val))

\* C23 witness: deepEqual returned true for two different plain objects whose
\* one key holds two different, structurally equal children.
C23_Witness ==
  /\ lastOp.op = "deepEqual" /\ lastOp.obj = Raw(1) /\ lastOp.val = Raw(2)
  /\ Returned
  /\ heap[1].ctor = "Object" /\ heap[2].ctor = "Object"
  /\ ObjectKeys(heap, 1) = {"a"}
  /\ heap[1].props["a"] = Raw(3) /\ heap[2].props["a"] = Raw(4)
  /\ heap[3] = heap[4]



\* C24: a real-change write enqueues one pair for each listener that is on
\* the list of the key at that moment; subscribe and the disposer leave the
\* pending batch and the scheduled flush as they are; the flush takes the
\* pending batch as it is and has called exactly its pairs when its loop is
\* over.  So a pair stays pending and is called after its listener's list
\* was emptied, and a listener subscribed after the write gets no pair for it.
C24_ListenersFixedAtWrite ==
  /\ [][/\ (WriteStep /\ heap[1].props[lastOp'.key] # lastOp'.val)
             => /\ Appends
                /\ Enqueued = Pairs(Listeners(1, lastOp'.key), lastOp'.val)
        /\ (lastOp'.op \in {"subscribe", "subscribe-throws", "unsubscribe"})
             => UNCHANGED <<handlerBatch, batchScheduled, microtasks, batch, calls>>
        /\ (lastOp'.op = "flush") => (batch' = handlerBatch)
        /\ (pos >= 1 /\ pos' >= 1) => (batch' = batch)
        /\ (lastOp'.op = "flush-end") => (calls = batch)]_vars
  /\ \A h \in Handlers, v \in Numbers :
       (Pending(h, v) /\ Listeners(1, "a") = <<>>) ~> Called(h, v)

\* C24 witness: h1 was enqueued by a write, its disposer ran, h2 was
\* subscribed, and the flush of that write has called h1 and nothing else.
C24_Witness ==
  /\ lastOp.op \in {"invoke", "invoke-throws"} /\ lastOp.fn = "h1"
  /\ batch = <<[handler |-> "h1", record |-> Num(1)]>>
  /\ calls = batch
  /\ pos = 2
  /\ disposers["h1"] = [targetObject |-> Raw(1), subscribeKey |-> "a"]
  /\ Listeners(1, "a") = <<"h2">>
  /\ handlerBatch = <<>>



(***************************************************************************)
(* SpecOrder: object 2, held in root.b, has a listener of its own key "a"  *)
(* (h2, from subscribe(proxy(object 2), "a", h2)) and a listener on its    *)
(* SELF_SYMBOL list (h1, from subscribe(state, "b", h1)); client code      *)
(* writes the keys of object 2 several times before the flush runs.        *)
(***************************************************************************)
NextOrder ==
  \/ ClientSubscribe(Ref(1, 1), "b", "h1")
  \/ ClientSubscribe(Ref(2, 1), "a", "h2")
  \/ \E key \in Keys, value \in Numbers : ClientSet(Ref(2, 1), key, value)
  \/ FlushStart
  \/ InvokeReturn
  \/ FlushEnd

SpecOrder == InitNested /\ [][NextOrder]_vars

\* C25: every real-change write appends to the pending batch, whatever is
\* pending already, one pair per listener of the written key with the
\* written value, followed by one pair per listener of the object's
\* SELF_SYMBOL list with the unwrapped object; nothing pending is replaced or
\* merged; the flush takes the pending batch whole and calls its pairs in
\* order, so n writes of a key in a turn give each of its listeners n calls,
\* with the written values in the order of the writes.
C25_NoCoalescingKeyThenSelf ==
  /\ [][/\ (WriteStep /\ RealChange)
             => /\ Appends
                /\ Enqueued =
                     Pairs(Listeners(lastOp'.obj.n, lastOp'.key), lastOp'.val)
                       \o Pairs(Listeners(lastOp'.obj.n, SELF_SYMBOL), Raw(lastOp'.obj.n))
                /\ Len(handlerBatch') =
                     Len(handlerBatch) + Len(Listeners(lastOp'.obj.n, lastOp'.key))
                       + Len(Listeners(lastOp'.obj.n, SELF_SYMBOL))
        /\ (pos = 0 /\ pos' = 0) => Appends
        /\ (lastOp'.op = "flush") => (batch' = handlerBatch)
        /\ (lastOp'.op = "flush-end") => (calls = batch)]_vars
  /\ [](Len(calls) <= Len(batch) /\ calls = SubSeq(batch, 1, Len(calls)))

\* C25 witness: object 2's key "a" was written 1 and then 0 in one turn; the
\* flush of that turn has called h2, the listener of the key, with 1 and
\* then with 0.
C25_Witness ==
  /\ lastOp.op = "invoke" /\ lastOp.fn = "h2"
  /\ calls = <<[handler |-> "h2", record |-> Num(1)],
               [handler |-> "h2", record |-> Num(0)]>>
  /\ batch = calls
  /\ heap[2].props["a"] = Num(0)
  /\ Listeners(2, "a") = <<"h2">>



\* Listener h is on the list of object o under path-key q.
IsListener(h, o, q) == \E i \in DOMAIN Listeners(o, q) : Listeners(o, q)[i] = h

\* C26: subscribe(state, "b", h) with state.b an object O puts h on the
\* SELF_SYMBOL list of O; no write, the replacement of state.b included,
\* changes a listener list: the lists change only when subscribe or a
\* disposer runs.  A real-change
\* write to a property of an object enqueues the listeners of its
\* SELF_SYMBOL list with the object, also when state.b no longer holds it;
\* a write to an object on whose lists h is not enqueues no call of h.
C26_SubscriptionFollowsObject ==
  [][/\ (lastOp'.op = "subscribe" /\ lastOp'.obj.n = 1 /\ lastOp'.key = "b"
           /\ IsRaw(heap[1].props["b"]))
          => /\ disposers'[lastOp'.fn] =
                  [targetObject |-> heap[1].props["b"], subscribeKey |-> SELF_SYMBOL]
             /\ subscriberStore'[heap[1].props["b"]].map[SELF_SYMBOL] =
                  Append(subscriberStore[heap[1].props["b"]].map[SELF_SYMBOL], lastOp'.fn)
     /\ (lastOp'.op \notin {"subscribe", "unsubscribe"})
          => \A x \in StoreKeys : subscriberStore'[x].map = subscriberStore[x].map
     /\ (WriteStep /\ RealChange)
          => /\ Len(Enqueued) >= Len(Listeners(lastOp'.obj.n, SELF_SYMBOL))
             /\ \A i \in DOMAIN Listeners(lastOp'.obj.n, SELF_SYMBOL) :
                  \E j \in DOMAIN Enqueued :
                    Enqueued[j] = [handler |-> Listeners(lastOp'.obj.n, SELF_SYMBOL)[i],
                                   record |-> Raw(lastOp'.obj.n)]
     /\ WriteStep
          => \A h \in Handlers :
               (~IsListener(h, lastOp'.obj.n, lastOp'.key)
                  /\ ~IsListener(h, lastOp'.obj.n, SELF_SYMBOL))
                 => /\ Appends
                    /\ \A j \in DOMAIN Enqueued : Enqueued[j].handler # h]_vars

\* C26 witness: h1 was subscribed through subscribe(state, "b", h1) while
\* state.b held object 2; state.b holds object 3 now, and a write to a
\* property of object 2 has enqueued h1 with object 2.
C26_Witness ==
  /\ lastOp.op = "set" /\ lastOp.obj = Ref(2, 1)
  /\ heap[1].props["b"] = Raw(3)
  /\ disposers["h1"] = [targetObject |-> Raw(2), subscribeKey |-> SELF_SYMBOL]
  /\ Listeners(2, SELF_SYMBOL) = <<"h1">>
  /\ Listeners(3, SELF_SYMBOL) = <<>>
  /\ handlerBatch = <<[handler |-> "h1", record |-> Raw(2)]>>

=============================================================================
